---- MODULE Spec2Model ----
(***************************************************************************)
(* A model of birdsong's custom command engine (birdsong/core/custom.py): *)
(* the command library loader (CCManager.load_command_library), the       *)
(* command line builder (CCManager.build_command_line), trigger and        *)
(* requirement matching (CustomCommand.check_trigger / check_requirements) *)
(* and the dispatcher (Birdsong.on_message -> CCManager.execute_all).      *)
(*                                                                         *)
(* Strings are sequences of one-character strings, so that split(),        *)
(* removeprefix(), lower() and pattern matching are computed, not assumed. *)
(***************************************************************************)
EXTENDS Integers, Sequences, FiniteSets, TLC

VARIABLES
    prefix,      \* Birdsong.prefix, the configured command prefix
    dir,         \* the *.yaml files under commands_path, in rglob order
    commands,    \* CCManager.commands: the registry, in insertion order
    scans,       \* number of load_command_library calls made so far
    status,      \* "init" | "ready" | "crashed": the CCManager's construction
    lastLoad,    \* the previous load_command_library call: the tree it saw,
                 \* whether it raised, whether the tree was unchanged
    passes,      \* one dispatch pass (on_message coroutine) per message id
    bcContent,   \* build_command_line: its content argument
    bcType,      \* build_command_line: its type argument
    bcCalled,    \* build_command_line: whether the call has been made
    bcResult,    \* build_command_line: what the call produced
    call,        \* a call of check_trigger, check_requirements or
                 \* validate_command: the method and its arguments
    callDone,    \* whether that call has been made
    callResult   \* the truth value it returned

vars == <<prefix, dir, commands, scans, status, lastLoad, passes,
          bcContent, bcType, bcCalled, bcResult, call, callDone, callResult>>

dispatchVars == <<dir, commands, scans, status, lastLoad, passes>>
buildVars == <<bcContent, bcType, bcCalled, bcResult>>
callVars == <<call, callDone, callResult>>

----------------------------------------------------------------------------
(* Bounds *)

\* longest message content enumerated for the pure string functions
MaxLen == 4
\* most definition files in the commands tree
MaxFiles == 2
\* most load_command_library calls in one behaviour
MaxScans == 2

----------------------------------------------------------------------------
(* Strings *)

Chars == {"!", " ", "a", "A"}

RECURSIVE StringsUpTo(_)
StringsUpTo(n) ==
    IF n = 0 THEN {<<>>}
    ELSE LET shorter == StringsUpTo(n - 1)
         IN  shorter \cup {Append(s, c) : s \in shorter, c \in Chars}

\* str.isspace() for one character
isspace(c) == c = " "

\* str.lower() for one character
lowerChar(c) == IF c = "A" THEN "a" ELSE c

\* str.lower()
lower(s) == [i \in 1..Len(s) |-> lowerChar(s[i])]

\* str.split() with no separator: the maximal runs of non-whitespace
RECURSIVE splitAcc(_, _, _)
splitAcc(s, cur, acc) ==
    IF s = <<>>
    THEN IF cur = <<>> THEN acc ELSE Append(acc, cur)
    ELSE IF isspace(Head(s))
         THEN splitAcc(Tail(s), <<>>, IF cur = <<>> THEN acc ELSE Append(acc, cur))
         ELSE splitAcc(Tail(s), Append(cur, Head(s)), acc)

split(s) == splitAcc(s, <<>>, <<>>)

\* str.startswith(p)
startswith(s, p) == Len(p) <= Len(s) /\ SubSeq(s, 1, Len(p)) = p

\* str.removeprefix(p): s[len(p):] if s starts with p, else s
removeprefix(s, p) ==
    IF startswith(s, p) THEN SubSeq(s, Len(p) + 1, Len(s)) ELSE s

----------------------------------------------------------------------------
(* CCTriggerType *)

CCTriggerNone == "CCTriggerNone"
CCTriggerCommand == "CCTriggerCommand"
CCTriggerContains == "CCTriggerContains"
CCTriggerExact == "CCTriggerExact"
CCTriggerRegex == "CCTriggerRegex"

CCTriggerType ==
    {CCTriggerNone, CCTriggerCommand, CCTriggerContains, CCTriggerExact,
     CCTriggerRegex}

from_string(cmdtype) ==
    CASE cmdtype = "command" -> CCTriggerCommand
      [] cmdtype = "contains" -> CCTriggerContains
      [] cmdtype = "exact" -> CCTriggerExact
      [] cmdtype = "regex" -> CCTriggerRegex
      [] OTHER -> CCTriggerNone

----------------------------------------------------------------------------
(* CCManager.build_command_line *)

\* The outcome of a call: raised is "" when the call returned (cmd, args),
\* else the exception that left it.
Returned(cmd, args) == [raised |-> "", cmd |-> cmd, args |-> args]
Raised(exc) == [raised |-> exc, cmd |-> <<>>, args |-> <<>>]

\* str.lstrip(chars): drops every leading character that occurs in chars
RECURSIVE lstrip(_, _)
lstrip(s, chars) ==
    IF s # <<>> /\ \E i \in 1..Len(chars) : chars[i] = Head(s)
    THEN lstrip(Tail(s), chars)
    ELSE s

\* build_command_fragments with lstrip in the place of removeprefix
build_command_fragments_lstrip(fragments, pfx) ==
    IF Len(fragments) = 0
    THEN Raised("IndexError")
    ELSE Returned(lstrip(fragments[1], pfx),
                  IF Len(fragments) < 2 THEN <<>> ELSE Tail(fragments))

\* fragments[0]: an IndexError on an empty list
build_command_fragments(fragments, pfx) ==
    IF Len(fragments) = 0
    THEN Raised("IndexError")
    ELSE Returned(removeprefix(fragments[1], pfx),
                  IF Len(fragments) < 2 THEN <<>> ELSE Tail(fragments))

build_command_line(content, type, pfx) ==
    IF type = CCTriggerNone
    THEN Raised("Exception")
    ELSE IF type # CCTriggerCommand
         THEN Returned(content, <<>>)
         ELSE build_command_fragments(split(content), pfx)

----------------------------------------------------------------------------
(* Patterns: the fragment of re used by the definitions below.  A pattern  *)
(* is a string in which "." matches any character, "(" opens a group and   *)
(* every other character matches itself.  No pattern here closes a group,  *)
(* so re.compile raises on exactly the patterns that hold a "(".           *)

re_compile_raises(pattern) == \E i \in 1..Len(pattern) : pattern[i] = "("

\* whether pattern matches s at position i (1-based)
matchAt(pattern, s, i) ==
    /\ i + Len(pattern) - 1 <= Len(s)
    /\ \A j \in 1..Len(pattern) :
           pattern[j] = "." \/ pattern[j] = s[i + j - 1]

\* re.search: a match anywhere; re.match: a match at the start
re_search(pattern, s) == \E i \in 1..(Len(s) + 1) : matchAt(pattern, s, i)
re_match(pattern, s) == matchAt(pattern, s, 1)

\* utils.did_except(re.compile, trigger)
did_except_compile(trigger) == re_compile_raises(trigger)

----------------------------------------------------------------------------
(* CustomCommand *)

\* The handler bound when a definition names no actions file, and the
\* coroutine `action` loaded from an actions file.
no_such_action == "no_such_action"
loaded_action == "action"

\* require: the keys present in the dict, and the set under each
NoRequire == [keys |-> {}, channels |-> {}, categories |-> {}, roles |-> {}]

\* obj stands for the object's identity: the number of the
\* load_command_library call that constructed it (a path is constructed
\* at most once per call).
CustomCommand(path, trigger, cmdtype, actions, require, obj) ==
    [path |-> path, actions |-> actions, cmdtype |-> cmdtype,
     require |-> require, trigger |-> trigger, obj |-> obj]

\* check_trigger comparing a Command trigger with cmd as it stands
check_trigger_no_lower(command, cmd) ==
    CASE command.cmdtype = CCTriggerCommand -> command.trigger = cmd
      [] command.cmdtype = CCTriggerContains ->
             re_search(lower(command.trigger), lower(cmd))
      [] command.cmdtype = CCTriggerExact -> re_match(command.trigger, cmd)
      [] command.cmdtype = CCTriggerRegex -> re_search(command.trigger, cmd)
      [] OTHER -> FALSE

check_trigger(command, cmd) ==
    CASE command.cmdtype = CCTriggerCommand -> command.trigger = lower(cmd)
      [] command.cmdtype = CCTriggerContains ->
             re_search(lower(command.trigger), lower(cmd))
      [] command.cmdtype = CCTriggerExact -> re_match(command.trigger, cmd)
      [] command.cmdtype = CCTriggerRegex -> re_search(command.trigger, cmd)
      [] OTHER -> FALSE

require_channel(command, current_channel) ==
    IF "channels" \notin command.require.keys
    THEN TRUE
    ELSE current_channel \in command.require.channels

require_category(command, current_category) ==
    IF "categories" \notin command.require.keys
    THEN TRUE
    ELSE current_category \in command.require.categories

\* require_a_role asking for every required role
require_a_role_all(command, member_roles) ==
    IF "roles" \notin command.require.keys
    THEN TRUE
    ELSE command.require.roles \subseteq member_roles

require_a_role(command, member_roles) ==
    IF "roles" \notin command.require.keys
    THEN TRUE
    ELSE (member_roles \cap command.require.roles) # {}

check_requirements(command, requirements) ==
    /\ require_channel(command, requirements.channel)
    /\ require_category(command, requirements.category)
    /\ require_a_role(command, requirements.roles)

----------------------------------------------------------------------------
(* The registry and the loader *)

\* path in self.commands
path_in_commands(path, cmds) == \E j \in 1..Len(cmds) : cmds[j].path = path

\* self.commands.update({path: cc}): a new key goes last, an old key keeps
\* its place
commands_update(cmds, path, cc) ==
    IF path_in_commands(path, cmds)
    THEN [j \in 1..Len(cmds) |-> IF cmds[j].path = path THEN cc ELSE cmds[j]]
    ELSE Append(cmds, cc)

\* validate_command without the check that the trigger compiles
validate_command_unchecked_pattern(command) ==
    IF command.trigger = <<>>
    THEN FALSE
    ELSE IF command.cmdtype = CCTriggerNone
         THEN FALSE
         ELSE TRUE

validate_command(command) ==
    IF command.trigger = <<>>
    THEN FALSE
    ELSE IF command.cmdtype = CCTriggerNone
         THEN FALSE
         ELSE IF did_except_compile(command.trigger)
              THEN FALSE
              ELSE TRUE

\* load_cc_response: "" binds the no-op handler; a file that cannot be
\* imported raises
load_cc_response_raises(actions) == actions = "missing.py"
load_cc_response(actions) ==
    IF actions = "" THEN no_such_action ELSE loaded_action

\* the loop of load_command_library without its skip of loaded paths
already_loaded_never(path, cmds) == FALSE

\* if path in self.commands: continue
already_loaded(path, cmds) == path_in_commands(path, cmds)

\* load_one leaving the loop at a definition that fails validation
load_one_stops_on_invalid(files, path, cmds, gen) ==
    IF path_in_commands(path, cmds)
    THEN [raised |-> FALSE, commands |-> cmds]
    ELSE IF ~files[path].yaml \/ load_cc_response_raises(files[path].actions)
         THEN [raised |-> TRUE, commands |-> cmds]
         ELSE LET cc == CustomCommand(path,
                                      files[path].trigger,
                                      from_string(files[path].cmdtype),
                                      load_cc_response(files[path].actions),
                                      files[path].require,
                                      gen)
              IN  IF validate_command(cc)
                  THEN [raised |-> FALSE,
                        commands |-> commands_update(cmds, path, cc)]
                  ELSE [raised |-> TRUE, commands |-> cmds]

\* One iteration of the loop of load_command_library over file `path` of
\* the tree: the registry after it, and whether an exception left the loop.
load_one(files, path, cmds, gen) ==
    IF already_loaded(path, cmds)
    THEN [raised |-> FALSE, commands |-> cmds]
    ELSE IF ~files[path].yaml
         THEN [raised |-> TRUE, commands |-> cmds]
         ELSE IF load_cc_response_raises(files[path].actions)
              THEN [raised |-> TRUE, commands |-> cmds]
              ELSE LET cc == CustomCommand(path,
                                           files[path].trigger,
                                           from_string(files[path].cmdtype),
                                           load_cc_response(files[path].actions),
                                           files[path].require,
                                           gen)
                   IN  [raised |-> FALSE,
                        commands |-> IF validate_command(cc)
                                     THEN commands_update(cmds, path, cc)
                                     ELSE cmds]

\* load_command_library from file `path` on: the loop runs in rglob order
\* and an exception ends it
RECURSIVE load_from(_, _, _, _)
load_from(files, path, cmds, gen) ==
    IF path > Len(files)
    THEN [raised |-> FALSE, commands |-> cmds]
    ELSE LET step == load_one(files, path, cmds, gen)
         IN  IF step.raised
             THEN step
             ELSE load_from(files, path + 1, step.commands, gen)

load_command_library(files, cmds, gen) == load_from(files, 1, cmds, gen)

----------------------------------------------------------------------------
(* The definition files a commands tree is drawn from *)

Definition(yaml, actions, cmdtype, trigger, require) ==
    [yaml |-> yaml, actions |-> actions, cmdtype |-> cmdtype,
     trigger |-> trigger, require |-> require]

ModsOnly == [keys |-> {"roles"}, channels |-> {}, categories |-> {},
             roles |-> {"mod", "admin"}]

DefCommand == Definition(TRUE, "act.py", "command", <<"a">>, NoRequire)
DefContains == Definition(TRUE, "act.py", "contains", <<"A">>, ModsOnly)
DefNoActions == Definition(TRUE, "", "regex", <<".">>, NoRequire)
DefEmptyTrigger == Definition(TRUE, "act.py", "exact", <<>>, NoRequire)
DefBadCmdtype == Definition(TRUE, "act.py", "bogus", <<"a">>, NoRequire)
DefBadPattern == Definition(TRUE, "act.py", "regex", <<"(", "a">>, NoRequire)
DefBadYaml == Definition(FALSE, "", "", <<>>, NoRequire)
DefBadActions == Definition(TRUE, "missing.py", "command", <<"a">>, NoRequire)

Definitions ==
    {DefCommand, DefContains, DefNoActions, DefEmptyTrigger, DefBadCmdtype,
     DefBadPattern, DefBadYaml, DefBadActions}

----------------------------------------------------------------------------
(* The messages a dispatch pass is drawn from *)

Message(content, channel, category, roles, bot) ==
    [content |-> content, channel |-> channel, category |-> category,
     roles |-> roles, bot |-> bot]

NoMessage == Message(<<>>, "", "", {}, FALSE)

Messages ==
    {Message(<<"!", "a">>, "general", "", {"member", "mod"}, FALSE),
     Message(<<"A">>, "general", "", {"member"}, FALSE),
     Message(<<" ">>, "general", "", {"mod"}, FALSE),
     Message(<<"!", "a">>, "general", "", {}, TRUE)}

MsgIds == {"m1", "m2"}

build_require_block(context) ==
    [channel |-> context.channel, category |-> context.category,
     roles |-> context.roles]

----------------------------------------------------------------------------
(* CCManager.find_commands *)

\* re raises when handed a pattern that does not compile
check_trigger_raises(command) ==
    CASE command.cmdtype = CCTriggerContains ->
             re_compile_raises(lower(command.trigger))
      [] command.cmdtype \in {CCTriggerExact, CCTriggerRegex} ->
             re_compile_raises(command.trigger)
      [] OTHER -> FALSE

\* whether the loop body of find_commands raises on this command
find_raises_on(command, context, pfx) ==
    LET line == build_command_line(context.content, command.cmdtype, pfx)
    IN  line.raised # "" \/ check_trigger_raises(command)

\* whether the loop body of find_commands appends this command
is_candidate(command, context, pfx) ==
    LET line == build_command_line(context.content, command.cmdtype, pfx)
    IN  /\ check_trigger(command, line.cmd)
        /\ check_requirements(command, build_require_block(context))

\* find_commands returning its candidates last-registered first
find_commands_reversed(cmds, context, pfx) ==
    LET found == SelectSeq(cmds, LAMBDA c : is_candidate(c, context, pfx))
    IN  IF \E j \in 1..Len(cmds) : find_raises_on(cmds[j], context, pfx)
        THEN [raised |-> TRUE, candidates |-> <<>>]
        ELSE [raised |-> FALSE,
              candidates |-> [i \in 1..Len(found) |-> found[Len(found) + 1 - i]]]

find_commands(cmds, context, pfx) ==
    IF \E j \in 1..Len(cmds) : find_raises_on(cmds[j], context, pfx)
    THEN [raised |-> TRUE, candidates |-> <<>>]
    ELSE [raised |-> FALSE,
          candidates |-> SelectSeq(cmds, LAMBDA c : is_candidate(c, context, pfx))]

----------------------------------------------------------------------------
(* CCManager.execute_all, as run by Birdsong.on_message *)

\* What a pass has done to the outside world, in order: handler
\* invocations, their returns and raises, and the delete of the message.
Event(ev, path, result) == [ev |-> ev, path |-> path, result |-> result]
Invoke(path) == Event("invoke", path, FALSE)
Return(path, result) == Event("return", path, result)
Raise(path) == Event("raise", path, FALSE)
Delete == Event("delete", 0, FALSE)

NoPass == [pc |-> "none", msg |-> NoMessage, cmds |-> <<>>, idx |-> 0,
           delete |-> FALSE, log |-> <<>>]

\* after the loop: if delete: await context.delete()
after_loop(p) ==
    IF p.delete
    THEN [p EXCEPT !.pc = "done", !.log = Append(p.log, Delete)]
    ELSE [p EXCEPT !.pc = "done"]

\* handler_returned with delete = result: the last handler decides
handler_returned_last_wins(p, result) ==
    [p EXCEPT !.delete = result,
              !.log = Append(p.log, Return(p.cmds[p.idx].path, result)),
              !.idx = p.idx + 1]

\* the truth value of a handler's result sets the flag and never clears it
handler_returned(p, result) ==
    [p EXCEPT !.delete = p.delete \/ result,
              !.log = Append(p.log, Return(p.cmds[p.idx].path, result)),
              !.idx = p.idx + 1]

\* The loop of execute_all from command p.idx on, up to the next point
\* where the coroutine is suspended in a handler or ends.  The no-op
\* handler returns False without suspending.
RECURSIVE run_loop(_, _)
run_loop(p, pfx) ==
    IF p.idx > Len(p.cmds)
    THEN after_loop(p)
    ELSE LET command == p.cmds[p.idx]
             line == build_command_line(p.msg.content, command.cmdtype, pfx)
             invoked == [p EXCEPT !.log = Append(p.log, Invoke(command.path))]
         IN  IF line.raised # ""
             THEN [p EXCEPT !.pc = "raised"]
             ELSE IF command.actions = no_such_action
                  THEN run_loop(handler_returned(invoked, FALSE), pfx)
                  ELSE [invoked EXCEPT !.pc = "handler"]

\* on_message matching each command only as its turn comes: the commands
\* that match run although matching raises on another
on_message_lazy(cmds, message, pfx) ==
    IF message.bot
    THEN [NoPass EXCEPT !.pc = "done", !.msg = message]
    ELSE run_loop([NoPass EXCEPT
                      !.msg = message,
                      !.cmds = SelectSeq(cmds, LAMBDA c :
                                   /\ ~find_raises_on(c, message, pfx)
                                   /\ is_candidate(c, message, pfx)),
                      !.idx = 1], pfx)

\* on_message up to its first suspension: bot authors are ignored, an
\* exception in find_commands leaves the coroutine before any handler
on_message(cmds, message, pfx) ==
    IF message.bot
    THEN [NoPass EXCEPT !.pc = "done", !.msg = message]
    ELSE LET found == find_commands(cmds, message, pfx)
         IN  IF found.raised
             THEN [NoPass EXCEPT !.pc = "raised", !.msg = message]
             ELSE run_loop([NoPass EXCEPT !.msg = message,
                                          !.cmds = found.candidates,
                                          !.idx = 1], pfx)

----------------------------------------------------------------------------
(* Actions *)

\* A definition file appears in the tree, last in scan order.
AddFile(d) ==
    /\ status # "crashed"
    /\ Len(dir) < MaxFiles
    /\ dir' = Append(dir, d)
    /\ UNCHANGED <<prefix, commands, scans, status, lastLoad, passes>>
    /\ UNCHANGED buildVars
    /\ UNCHANGED callVars

LoadOutcome(result) ==
    /\ commands' = result.commands
    /\ scans' = scans + 1
    /\ lastLoad' = [dir |-> dir, raised |-> result.raised,
                    unchanged |-> scans >= 1 /\ lastLoad.dir = dir]

\* CCManager.__init__: the registry starts empty and is loaded; an
\* exception leaves the constructor and no manager exists.
Construct ==
    /\ status = "init"
    /\ LET result == load_command_library(dir, <<>>, scans + 1)
       IN  /\ LoadOutcome(result)
           /\ status' = IF result.raised THEN "crashed" ELSE "ready"
    /\ UNCHANGED <<prefix, dir, passes>>
    /\ UNCHANGED buildVars
    /\ UNCHANGED callVars

\* A later call of load_command_library on the live manager.  It is
\* synchronous, so it runs between the steps of the dispatch passes.
Rescan ==
    /\ status = "ready"
    /\ scans < MaxScans
    /\ LoadOutcome(load_command_library(dir, commands, scans + 1))
    /\ UNCHANGED <<prefix, dir, status, passes>>
    /\ UNCHANGED buildVars
    /\ UNCHANGED callVars

\* Receive behind a lock held by whichever pass is inside a handler
Receive_one_at_a_time(m, message) ==
    /\ status = "ready"
    /\ passes[m].pc = "none"
    /\ \A other \in MsgIds : passes[other].pc # "handler"
    /\ passes' = [passes EXCEPT ![m] = on_message(commands, message, prefix)]
    /\ UNCHANGED <<prefix, dir, commands, scans, status, lastLoad>>
    /\ UNCHANGED buildVars
    /\ UNCHANGED callVars

\* A message arrives and its pass runs to its first suspension or its end.
Receive(m, message) ==
    /\ status = "ready"
    /\ passes[m].pc = "none"
    /\ passes' = [passes EXCEPT ![m] = on_message(commands, message, prefix)]
    /\ UNCHANGED <<prefix, dir, commands, scans, status, lastLoad>>
    /\ UNCHANGED buildVars
    /\ UNCHANGED callVars

\* HandlerReturn with delete kept on the manager, shared by the passes
HandlerReturn_shared_flag(m, result) ==
    /\ passes[m].pc = "handler"
    /\ passes' = [o \in MsgIds |->
                     IF o = m
                     THEN run_loop(handler_returned(passes[m], result), prefix)
                     ELSE [passes[o] EXCEPT !.delete = passes[o].delete \/ result]]
    /\ UNCHANGED <<prefix, dir, commands, scans, status, lastLoad>>
    /\ UNCHANGED buildVars
    /\ UNCHANGED callVars

\* The handler a pass is suspended in returns, and the pass runs on to its
\* next suspension or its end.
HandlerReturn(m, result) ==
    /\ passes[m].pc = "handler"
    /\ passes' = [passes EXCEPT
                     ![m] = run_loop(handler_returned(passes[m], result), prefix)]
    /\ UNCHANGED <<prefix, dir, commands, scans, status, lastLoad>>
    /\ UNCHANGED buildVars
    /\ UNCHANGED callVars

\* HandlerRaise taking the process down with the coroutine
HandlerRaise_fatal(m) ==
    /\ passes[m].pc = "handler"
    /\ passes' = [passes EXCEPT
                     ![m] = [passes[m] EXCEPT
                                !.pc = "raised",
                                !.log = Append(passes[m].log,
                                               Raise(passes[m].cmds[passes[m].idx].path))]]
    /\ status' = "crashed"
    /\ UNCHANGED <<prefix, dir, commands, scans, lastLoad>>
    /\ UNCHANGED buildVars
    /\ UNCHANGED callVars

\* The handler a pass is suspended in raises: nothing in execute_all or
\* on_message catches it, so the exception leaves the coroutine.
HandlerRaise(m) ==
    /\ passes[m].pc = "handler"
    /\ passes' = [passes EXCEPT
                     ![m] = [passes[m] EXCEPT
                                !.pc = "raised",
                                !.log = Append(passes[m].log,
                                               Raise(passes[m].cmds[passes[m].idx].path))]]
    /\ UNCHANGED <<prefix, dir, commands, scans, status, lastLoad>>
    /\ UNCHANGED buildVars
    /\ UNCHANGED callVars

\* The methods called on their own: which one, on which command, with
\* which command line or requirement block.
Call(fn, command, cmd, requirements) ==
    [fn |-> fn, command |-> command, cmd |-> cmd, requirements |-> requirements]

NoRequirements == [channel |-> "", category |-> "", roles |-> {}]
NoCall == Call("", CustomCommand(0, <<>>, CCTriggerNone, no_such_action, NoRequire, 0),
               <<>>, NoRequirements)

CallReturns(fn, result) ==
    /\ ~callDone
    /\ call.fn = fn
    /\ callDone' = TRUE
    /\ callResult' = result
    /\ UNCHANGED <<prefix, call>>
    /\ UNCHANGED dispatchVars
    /\ UNCHANGED buildVars

\* A call of CustomCommand.check_requirements on its own.
CheckRequirements ==
    CallReturns("check_requirements",
                check_requirements(call.command, call.requirements))

\* A call of CustomCommand.check_trigger on its own.
CheckTrigger ==
    CallReturns("check_trigger", check_trigger(call.command, call.cmd))

\* A call of CCManager.validate_command on its own.
ValidateCommand ==
    CallReturns("validate_command", validate_command(call.command))

\* A call of build_command_line on its own.
BuildCommandLine ==
    /\ ~bcCalled
    /\ bcCalled' = TRUE
    /\ bcResult' = build_command_line(bcContent, bcType, prefix)
    /\ UNCHANGED <<prefix, bcContent, bcType>>
    /\ UNCHANGED dispatchVars
    /\ UNCHANGED callVars

----------------------------------------------------------------------------
(* Specifications *)

DefaultPrefix == <<"!">>
Prefixes == {<<>>, <<"!">>, <<"!", "!">>, <<"a">>}

NoLoad == [dir |-> <<>>, raised |-> FALSE, unchanged |-> FALSE]

InitDispatch ==
    /\ dir = <<>>
    /\ commands = <<>>
    /\ scans = 0
    /\ status = "init"
    /\ lastLoad = NoLoad
    /\ passes = [m \in MsgIds |-> NoPass]

InitCall ==
    /\ call = NoCall
    /\ callDone = TRUE
    /\ callResult = FALSE

InitBuild ==
    /\ bcContent = <<>>
    /\ bcType = CCTriggerNone
    /\ bcCalled = TRUE
    /\ bcResult = Raised("Exception")

\* The manager and the dispatcher.
Init ==
    /\ prefix = DefaultPrefix
    /\ InitDispatch
    /\ InitBuild
    /\ InitCall

Next ==
    \/ \E d \in Definitions : AddFile(d)
    \/ Construct
    \/ Rescan
    \/ \E m \in MsgIds, message \in Messages : Receive(m, message)
    \/ \E m \in MsgIds, result \in BOOLEAN : HandlerReturn(m, result)
    \/ \E m \in MsgIds : HandlerRaise(m)

Spec == Init /\ [][Next]_vars

\* The manager and the dispatcher, where the event loop is never kept from
\* message m2: on_message is started for it once the manager is ready, and
\* its pass is resumed whenever a handler it awaits can return.  Nothing
\* is assumed of m1, whose handlers may stay suspended for ever.
ArrivesM2 == \E message \in Messages : Receive("m2", message)
ResumesM2 == \E result \in BOOLEAN : HandlerReturn("m2", result)

\* The tree is written before the manager is constructed and is loaded
\* once, by the constructor.
NextLive ==
    \/ status = "init" /\ \E d \in Definitions : AddFile(d)
    \/ Construct
    \/ \E m \in MsgIds, message \in Messages : Receive(m, message)
    \/ \E m \in MsgIds, result \in BOOLEAN : HandlerReturn(m, result)
    \/ \E m \in MsgIds : HandlerRaise(m)

SpecLive ==
    /\ Init
    /\ [][NextLive]_vars
    /\ WF_vars(ArrivesM2)
    /\ WF_vars(ResumesM2)

\* build_command_line over every content, trigger type and prefix.
InitCalls ==
    /\ prefix \in Prefixes
    /\ InitDispatch
    /\ bcContent \in StringsUpTo(MaxLen)
    /\ bcType \in CCTriggerType
    /\ bcCalled = FALSE
    /\ bcResult = Raised("")
    /\ InitCall

NextCalls == BuildCommandLine

SpecBuild == InitCalls /\ [][NextCalls]_vars

\* The names of channels, categories and roles the calls are drawn from.
ChannelNames == {"general", "bots"}
CategoryNames == {"", "games"}
RoleNames == {"member", "mod", "admin"}

\* the triggers the calls are drawn from
MaxTrigger == 2
PatternChars == {"a", "A", ".", "("}
RECURSIVE TriggersUpTo(_)
TriggersUpTo(n) ==
    IF n = 0 THEN {<<>>}
    ELSE LET shorter == TriggersUpTo(n - 1)
         IN  shorter \cup {Append(s, c) : s \in shorter, c \in PatternChars}

\* every require dict over the names: each key present or absent
Requires ==
    {[keys |-> keys,
      channels |-> IF "channels" \in keys THEN channels ELSE {},
      categories |-> IF "categories" \in keys THEN categories ELSE {},
      roles |-> IF "roles" \in keys THEN roles ELSE {}] :
        keys \in SUBSET {"channels", "categories", "roles"},
        channels \in SUBSET ChannelNames,
        categories \in SUBSET {"games"},
        roles \in SUBSET RoleNames}

\* every requirement block build_require_block can return over the names
RequirementBlocks ==
    [channel : ChannelNames, category : CategoryNames, roles : SUBSET RoleNames]

\* every command object over the triggers and kinds, and those of them
\* the registry can hold
AnyCommands ==
    {CustomCommand(1, trigger, cmdtype, no_such_action, NoRequire, 1) :
        trigger \in TriggersUpTo(MaxTrigger), cmdtype \in CCTriggerType}
StoredCommands == {command \in AnyCommands : validate_command(command)}

\* the command lines find_commands hands to check_trigger for a command of
\* each kind: what build_command_line returns over every content
Contents == StringsUpTo(MaxLen)
LinesOfKind ==
    [cmdtype \in CCTriggerType |->
        {line.cmd : line \in {l \in {build_command_line(content, cmdtype, DefaultPrefix) :
                                        content \in Contents} : l.raised = ""}}]
BuiltLines(command) == LinesOfKind[command.cmdtype]

\* check_requirements, check_trigger and validate_command over every such
\* call: check_requirements over every require dict and requirement block,
\* check_trigger over every stored command and the lines built for it,
\* validate_command over every command object.
InitMethodCall ==
    \/ \E require \in Requires, requirements \in RequirementBlocks :
           call = Call("check_requirements",
                       CustomCommand(1, <<"a">>, CCTriggerCommand, no_such_action,
                                     require, 1),
                       <<>>, requirements)
    \/ \E command \in StoredCommands :
           \E cmd \in BuiltLines(command) :
               call = Call("check_trigger", command, cmd, NoRequirements)
    \/ \E command \in AnyCommands :
           call = Call("validate_command", command, <<>>, NoRequirements)

InitMethods ==
    /\ prefix = DefaultPrefix
    /\ InitDispatch
    /\ InitBuild
    /\ InitMethodCall
    /\ callDone = FALSE
    /\ callResult = FALSE

NextMethods ==
    \/ CheckRequirements
    \/ CheckTrigger
    \/ ValidateCommand

SpecMethods == InitMethods /\ [][NextMethods]_vars

----------------------------------------------------------------------------
(* Properties of the dispatcher *)

Finished(p) == p.pc \in {"done", "raised"}
InLog(p, e) == \E k \in 1..Len(p.log) : p.log[k] = e
Count(p, e) == Cardinality({k \in 1..Len(p.log) : p.log[k] = e})
HandlerRaised(p) == \E k \in 1..Len(p.log) : p.log[k].ev = "raise"
ReturnedTrue(p) == \E k \in 1..Len(p.log) : p.log[k].ev = "return" /\ p.log[k].result
MatchedPaths(p) == {p.cmds[i].path : i \in 1..Len(p.cmds)}

\* C1: in a dispatch pass where several commands match the message, a
\* handler that raises does not stop the pass: once the pass is over, every
\* matched command has had its handler invoked.
C1_RaiseDoesNotStopPass ==
    \A m \in MsgIds :
        Finished(passes[m]) =>
            \A path \in MatchedPaths(passes[m]) : InLog(passes[m], Invoke(path))

\* C2: a handler that fails is a "no deletion" vote and nothing more: a
\* pass in which one matched handler returned true and another raised still
\* deletes the message exactly once.
C2_FailureIsOnlyANoDeleteVote ==
    \A m \in MsgIds :
        (Finished(passes[m]) /\ ReturnedTrue(passes[m]) /\ HandlerRaised(passes[m]))
            => Count(passes[m], Delete) = 1

\* C3: aggregate delete.  In a pass in which no handler raises, the delete
\* is issued at most once, only as the last step of the pass after every
\* matched handler has returned, and a finished pass has deleted the
\* message if and only if some matched handler returned true (so never when
\* nothing matched or every handler returned false).
C3_AggregateDelete ==
    \A m \in MsgIds :
        LET p == passes[m]
        IN  ~HandlerRaised(p) =>
                /\ Count(p, Delete) <= 1
                /\ InLog(p, Delete) =>
                       /\ p.pc = "done"
                       /\ p.log[Len(p.log)] = Delete
                       /\ \A path \in MatchedPaths(p) :
                              \E k \in 1..Len(p.log) :
                                  p.log[k].ev = "return" /\ p.log[k].path = path
                /\ Finished(p) => (InLog(p, Delete) <=> ReturnedTrue(p))
                /\ p.cmds = <<>> => ~InLog(p, Delete)

\* a finished pass in which the first handler returned false, the second
\* true, and the message was deleted after both
C3_Witness ==
    \E m \in MsgIds :
        LET p == passes[m]
        IN  /\ p.pc = "done"
            /\ Len(p.cmds) = 2
            /\ InLog(p, Return(p.cmds[1].path, FALSE))
            /\ InLog(p, Return(p.cmds[2].path, TRUE))
            /\ p.log[Len(p.log)] = Delete

\* the place of a path in the registry
RegistryIndex(path) == CHOOSE j \in 1..Len(commands) : commands[j].path = path

\* C4: dispatch order.  The handlers of one pass are invoked in registry
\* insertion order, each after the one before it has returned, and none
\* more than once: of two invocations in a pass, the earlier is of the
\* command registered first, and its return lies between the two.
C4_DispatchOrder ==
    \A m \in MsgIds :
        LET p == passes[m]
        IN  /\ \A k \in 1..Len(p.log) :
                   p.log[k].ev = "invoke" =>
                       /\ p.log[k].path \in MatchedPaths(p)
                       /\ path_in_commands(p.log[k].path, commands)
            /\ \A j, k \in 1..Len(p.log) :
                   (j < k /\ p.log[j].ev = "invoke" /\ p.log[k].ev = "invoke") =>
                       /\ RegistryIndex(p.log[j].path) < RegistryIndex(p.log[k].path)
                       /\ \E r \in (j + 1)..(k - 1) :
                              /\ p.log[r].ev = "return"
                              /\ p.log[r].path = p.log[j].path

\* a pass that has invoked two handlers, both loaded from actions files
C4_Witness ==
    \E m \in MsgIds :
        LET p == passes[m]
        IN  /\ Len(p.cmds) = 2
            /\ p.cmds[1].actions = loaded_action
            /\ p.cmds[2].actions = loaded_action
            /\ InLog(p, Invoke(p.cmds[1].path))
            /\ InLog(p, Invoke(p.cmds[2].path))

----------------------------------------------------------------------------
(* Properties of the loader *)

\* what the definitions say of a file, read off the file itself
Parses(d) == d.yaml
Resolves(d) == d.actions \in {"", "act.py"}
ValidKind(d) == d.cmdtype \in {"command", "contains", "exact", "regex"}
PatternKind(d) == d.cmdtype \in {"contains", "exact", "regex"}
Compiles(trigger) == \A i \in 1..Len(trigger) : trigger[i] # "("
WellFormed(d) ==
    /\ Parses(d) /\ Resolves(d)
    /\ d.trigger # <<>> /\ ValidKind(d) /\ Compiles(d.trigger)
FailsValidation(d) ==
    /\ Parses(d) /\ Resolves(d)
    /\ \/ d.trigger = <<>>
       \/ ~ValidKind(d)
       \/ PatternKind(d) /\ ~Compiles(d.trigger)

Scanned == 1..Len(lastLoad.dir)

\* C5: load isolation for parse and resolution errors.  After a call of
\* load_command_library over a tree in which a file cannot be parsed or its
\* actions cannot be resolved, every well-formed definition of the tree is
\* in the registry, whether it comes before or after the bad file.
C5_LoadIsolatesParseAndResolutionErrors ==
    scans >= 1 =>
        \A path \in Scanned :
            WellFormed(lastLoad.dir[path]) => path_in_commands(path, commands)

\* C6: load isolation for validation failures.  After a call of
\* load_command_library over a tree whose files all parse and resolve, the
\* call has not raised, every well-formed definition is in the registry and
\* no definition that fails validation is, in whichever order they were
\* scanned.
C6_LoadIsolatesValidationFailures ==
    (scans >= 1 /\ \A path \in Scanned :
                       Parses(lastLoad.dir[path]) /\ Resolves(lastLoad.dir[path]))
        => /\ ~lastLoad.raised
           /\ \A path \in Scanned :
                  /\ WellFormed(lastLoad.dir[path]) => path_in_commands(path, commands)
                  /\ FailsValidation(lastLoad.dir[path]) =>
                         ~path_in_commands(path, commands)

\* a tree scanned with a definition that fails validation first and a
\* well-formed one after it
C6_Witness ==
    /\ scans >= 1
    /\ Len(lastLoad.dir) = 2
    /\ FailsValidation(lastLoad.dir[1])
    /\ WellFormed(lastLoad.dir[2])
    /\ Len(commands) = 1
    /\ commands[1].path = 2

\* C7: registry invariant.  Every command in the registry has a non-empty
\* trigger, a trigger kind other than None and, if its kind is Regex, Exact
\* or Contains, a trigger that compiles.
C7_RegistryInvariant ==
    \A j \in 1..Len(commands) :
        /\ commands[j].trigger # <<>>
        /\ commands[j].cmdtype # CCTriggerNone
        /\ commands[j].cmdtype \in {CCTriggerRegex, CCTriggerExact, CCTriggerContains}
               => Compiles(commands[j].trigger)

\* a second scan has run over a tree holding a stored command and a
\* definition with a malformed pattern, which is not stored
C7_Witness ==
    /\ scans >= 2
    /\ commands # <<>>
    /\ \E path \in Scanned :
           /\ PatternKind(lastLoad.dir[path])
           /\ ~Compiles(lastLoad.dir[path].trigger)
           /\ ~path_in_commands(path, commands)

\* C8: idempotent re-scan.  A call of load_command_library over the tree
\* the previous call saw leaves the registry as it was: the same keys in
\* the same order, bound to the same command objects.
C8_IdempotentRescan ==
    [][(scans >= 1 /\ scans' = scans + 1 /\ dir = lastLoad.dir)
           => commands' = commands]_vars

\* a re-scan has run over an unchanged tree that holds a loaded command
\* and a definition that was not loaded
C8_Witness ==
    /\ scans >= 2
    /\ lastLoad.unchanged
    /\ commands # <<>>
    /\ Len(commands) < Len(lastLoad.dir)

----------------------------------------------------------------------------
(* Properties of build_command_line *)

Blank(content) == \A i \in 1..Len(content) : isspace(content[i])

\* C9: for trigger kind Command, build_command_line on empty or
\* whitespace-only content returns an empty command line and no arguments.
C9_BlankContentYieldsEmptyLine ==
    (bcCalled /\ bcType = CCTriggerCommand /\ Blank(bcContent))
        => bcResult = Returned(<<>>, <<>>)

\* the tokens of a content, said without splitting it: a token starts at a
\* non-blank character that begins the content or follows a blank, and ends
\* before the next blank
TokenStarts(content) ==
    {i \in 1..Len(content) :
        ~isspace(content[i]) /\ (i = 1 \/ isspace(content[i - 1]))}
TokenEnd(content, i) ==
    CHOOSE j \in i..Len(content) :
        /\ \A k \in i..j : ~isspace(content[k])
        /\ j = Len(content) \/ isspace(content[j + 1])
NthStart(content, n) ==
    CHOOSE i \in TokenStarts(content) :
        Cardinality({t \in TokenStarts(content) : t < i}) = n - 1
NthToken(content, n) ==
    SubSeq(content, NthStart(content, n), TokenEnd(content, NthStart(content, n)))

\* C10: for trigger kind Command and content with at least one token,
\* build_command_line returns the first token with one leading occurrence
\* of the prefix removed (the token itself if it does not start with the
\* prefix) and, as args, the remaining tokens in order.
C10_CommandLineOfTokens ==
    (bcCalled /\ bcType = CCTriggerCommand /\ ~Blank(bcContent)) =>
        LET first == NthToken(bcContent, 1)
            count == Cardinality(TokenStarts(bcContent))
        IN  /\ bcResult.raised = ""
            /\ IF startswith(first, prefix)
               THEN prefix \o bcResult.cmd = first
               ELSE bcResult.cmd = first
            /\ Len(bcResult.args) = count - 1
            /\ \A n \in 2..count : bcResult.args[n - 1] = NthToken(bcContent, n)

\* "!a A" under prefix "!" has been built into ("a", ["A"])
C10_Witness ==
    /\ bcCalled
    /\ bcType = CCTriggerCommand
    /\ prefix = <<"!">>
    /\ bcContent = <<"!", "a", " ", "A">>
    /\ bcResult = Returned(<<"a">>, <<<<"A">>>>)

----------------------------------------------------------------------------
(* Properties of check_requirements *)

Called(fn) == callDone /\ call.fn = fn

\* C11: check_requirements returns true exactly when the channel is
\* allowed or unconstrained, the category is allowed or unconstrained, and
\* the invoker holds one of the required roles or none is required; a
\* command with no requirement block is eligible in every context.
C11_RequirementEvaluation ==
    Called("check_requirements") =>
        LET require == call.command.require
            context == call.requirements
        IN  /\ callResult <=>
                   /\ "channels" \in require.keys =>
                          context.channel \in require.channels
                   /\ "categories" \in require.keys =>
                          context.category \in require.categories
                   /\ "roles" \in require.keys =>
                          \E role \in require.roles : role \in context.roles
            /\ require.keys = {} => callResult

\* roles {"mod", "admin"} against an invoker holding {"member", "mod"}
C11_Witness ==
    /\ Called("check_requirements")
    /\ call.command.require.keys = {"roles"}
    /\ call.command.require.roles = {"mod", "admin"}
    /\ call.requirements.roles = {"member", "mod"}
    /\ callResult

----------------------------------------------------------------------------
(* Properties of check_trigger *)

\* one character with its case folded, and equality of two strings up to
\* the case of the second
Folded(c) == IF c = "A" THEN "a" ELSE c
EqualsLowered(trigger, cmd) ==
    /\ Len(trigger) = Len(cmd)
    /\ \A i \in 1..Len(cmd) : trigger[i] = Folded(cmd[i])

\* C12: for a command of kind Command, check_trigger is true if and only
\* if the built command line is equal, character for character, to the
\* trigger.
C12_CommandIsExactEquality ==
    (Called("check_trigger") /\ call.command.cmdtype = CCTriggerCommand)
        => (callResult <=> call.cmd = call.command.trigger)

\* C12, amended: for a command of kind Command, check_trigger is true if
\* and only if the trigger is equal, character for character, to the built
\* command line converted to lower case.
C12_CommandIsEqualityWithLoweredLine ==
    (Called("check_trigger") /\ call.command.cmdtype = CCTriggerCommand)
        => (callResult <=> EqualsLowered(call.command.trigger, call.cmd))

\* the command line "A" has been found to satisfy the trigger "a"
C12_Witness ==
    /\ Called("check_trigger")
    /\ call.command.cmdtype = CCTriggerCommand
    /\ call.command.trigger = <<"a">>
    /\ call.cmd = <<"A">>
    /\ callResult

\* the trigger occurs in the content as a literal substring, case aside
OccursLiterally(trigger, content) ==
    \E i \in 1..(Len(content) - Len(trigger) + 1) :
        \A j \in 1..Len(trigger) : Folded(trigger[j]) = Folded(content[i + j - 1])

\* C13: for a command of kind Contains, check_trigger is true if and only
\* if the trigger, compared case-insensitively, occurs in the content as a
\* literal substring: no character of the trigger is a pattern operator.
C13_ContainsIsLiteralSubstring ==
    (Called("check_trigger") /\ call.command.cmdtype = CCTriggerContains)
        => (callResult <=> OccursLiterally(call.command.trigger, call.cmd))

----------------------------------------------------------------------------
(* Properties of validate_command *)

\* C17: validation accepts a definition if and only if its trigger is
\* non-empty, its kind is not None and, only when the kind is Regex, Exact
\* or Contains, its trigger compiles: the pattern rule does not apply to
\* kind Command.
C17_ValidationRules ==
    Called("validate_command") =>
        (callResult <=>
            /\ call.command.trigger # <<>>
            /\ call.command.cmdtype # CCTriggerNone
            /\ call.command.cmdtype \in
                   {CCTriggerRegex, CCTriggerExact, CCTriggerContains}
                   => Compiles(call.command.trigger))

----------------------------------------------------------------------------
(* Properties of interleaved passes *)

\* the paths of the handlers a pass has invoked, in the order of the calls
RECURSIVE InvokedPaths(_)
InvokedPaths(log) ==
    IF log = <<>>
    THEN <<>>
    ELSE IF Head(log).ev = "invoke"
         THEN <<Head(log).path>> \o InvokedPaths(Tail(log))
         ELSE InvokedPaths(Tail(log))

\* a pass that ended by returning has invoked its matched handlers, all of
\* them and in registry order, and has deleted the message if and only if
\* one of them returned true
RanToTheEnd(p) ==
    /\ InvokedPaths(p.log) = [i \in 1..Len(p.cmds) |-> p.cmds[i].path]
    /\ \A i, j \in 1..Len(p.cmds) :
           i < j => RegistryIndex(p.cmds[i].path) < RegistryIndex(p.cmds[j].path)
    /\ Count(p, Delete) = (IF ReturnedTrue(p) THEN 1 ELSE 0)

\* C14: a handler that never returns blocks only its own pass.  While the
\* pass of m1 is suspended in a handler, the pass of m2 still comes to its
\* end, and when it ends by returning it has invoked all its matched
\* handlers in registry order and applied its deletion decision.
C14_HungHandlerBlocksOnlyItsPass ==
    /\ [](passes["m1"].pc = "handler" => <>Finished(passes["m2"]))
    /\ []((passes["m1"].pc = "handler" /\ passes["m2"].pc = "done")
              => RanToTheEnd(passes["m2"]))

\* m1 is suspended in its first handler while m2 has run two handlers to
\* their end and deleted its message
C14_Witness ==
    /\ passes["m1"].pc = "handler"
    /\ Len(passes["m1"].log) = 1
    /\ passes["m2"].pc = "done"
    /\ Len(passes["m2"].cmds) = 2
    /\ passes["m2"].cmds[1].actions = loaded_action
    /\ InLog(passes["m2"], Delete)

\* the commands of the registry whose trigger and requirements a message
\* satisfies, in registry order
Matching(message) ==
    SelectSeq(commands, LAMBDA c :
        /\ check_trigger(c, build_command_line(message.content, c.cmdtype, prefix).cmd)
        /\ check_requirements(c, [channel |-> message.channel,
                                  category |-> message.category,
                                  roles |-> message.roles]))

\* a step that starts the pass of m, and one that takes it further
Starts(m) == passes[m].pc = "none" /\ passes'[m].pc # "none"
Advances(m) == passes[m].pc = "handler" /\ passes'[m] # passes[m]

\* C15: interleaved dispatches are independent.  A step of one pass leaves
\* the other pass and the registry as they were; a pass that starts
\* handlers takes as its handlers those the registry and its own message
\* determine; and a pass that ends by returning has invoked exactly those
\* and deleted its message if and only if one of its own handlers returned
\* true.
C15_InterleavedPassesAreIndependent ==
    [][\A m \in MsgIds :
           (Starts(m) \/ Advances(m)) =>
               /\ commands' = commands
               /\ \A o \in MsgIds \ {m} : passes'[o] = passes[o]
               /\ (Starts(m) /\ passes'[m].log # <<>>) =>
                      passes'[m].cmds = Matching(passes'[m].msg)
               /\ passes'[m].pc = "done" =>
                      /\ InvokedPaths(passes'[m].log) =
                             [i \in 1..Len(passes'[m].cmds) |-> passes'[m].cmds[i].path]
                      /\ InLog(passes'[m], Delete) <=> ReturnedTrue(passes'[m])]_vars

\* both passes are suspended in their second handler at once; a handler
\* of m1 has returned true and none of m2 has
C15_Witness ==
    /\ passes["m1"].pc = "handler"
    /\ passes["m2"].pc = "handler"
    /\ Len(passes["m1"].log) = 3
    /\ Len(passes["m2"].log) = 3
    /\ ReturnedTrue(passes["m1"])
    /\ ~ReturnedTrue(passes["m2"])
    /\ ~passes["m2"].delete

\* C16: the dispatcher stays available after failures.  A handler error
\* ends its own pass and changes nothing else: not the registry, not the
\* manager, not the other pass; and with a failed pass behind it the
\* manager is still ready to take messages, and a pass that then ends by
\* returning has invoked its matched handlers and applied its decision.
C16_AvailableAfterFailures ==
    [][\A m \in MsgIds :
           /\ (passes[m].pc = "handler" /\ passes'[m].pc = "raised") =>
                  /\ commands' = commands
                  /\ status' = status
                  /\ \A o \in MsgIds \ {m} : passes'[o] = passes[o]
           /\ HandlerRaised(passes'[m]) =>
                  /\ status' = "ready"
                  /\ \A o \in MsgIds :
                         passes'[o].pc = "done" => RanToTheEnd(passes[o])']_vars

\* the pass of one message ended in a handler error, and the pass of the
\* other has run two handlers and deleted its message
C16_Witness ==
    \E m, o \in MsgIds :
        /\ HandlerRaised(passes[m])
        /\ passes[o].pc = "done"
        /\ Len(passes[o].cmds) = 2
        /\ InLog(passes[o], Delete)

\* matching raises on a command: a Command-kind command has no first word
\* to take from blank content, and no line is built for kind None
MatchingRaises(message) ==
    \E j \in 1..Len(commands) :
        \/ commands[j].cmdtype = CCTriggerCommand /\ Blank(message.content)
        \/ commands[j].cmdtype = CCTriggerNone

\* C18: within one pass, matching is over for every registered command
\* before the first handler is invoked: the handlers of a pass are those
\* that matched when it started, the list never changes afterwards
\* whatever happens to the registry, and if matching raises on any
\* registered command the pass ends with no handler invoked and no delete.
C18_MatchingPrecedesHandlers ==
    [][\A m \in MsgIds :
           /\ passes[m].pc # "none" =>
                  /\ passes'[m].cmds = passes[m].cmds
                  /\ passes'[m].msg = passes[m].msg
           /\ (Starts(m) /\ ~passes'[m].msg.bot) =>
                  IF MatchingRaises(passes'[m].msg)
                  THEN passes'[m].pc = "raised" /\ passes'[m].log = <<>>
                  ELSE passes'[m].cmds = Matching(passes'[m].msg)
           /\ \A k \in 1..Len(passes'[m].log) :
                  passes'[m].log[k].ev = "invoke" =>
                      passes'[m].log[k].path \in MatchedPaths(passes'[m])]_vars

\* one pass is suspended in a handler while the registry has come to hold
\* a command that its message satisfies and that is not among its
\* handlers; the other ended before any handler because matching raised,
\* although a command of the registry matches its message
C18_Witness ==
    \E m, o \in MsgIds :
        /\ passes[m].pc = "handler"
        /\ \E j \in 1..Len(commands) :
               /\ is_candidate(commands[j], passes[m].msg, prefix)
               /\ commands[j].path \notin MatchedPaths(passes[m])
        /\ passes[o].pc = "raised"
        /\ passes[o].log = <<>>
        /\ \E j \in 1..Len(commands) :
               /\ commands[j].cmdtype = CCTriggerRegex
               /\ check_trigger(commands[j], passes[o].msg.content)

====
